---- MODULE Spec2Model ----
(***************************************************************************)
(* The Sudoku engine of the Game Center component: generateSudoku,         *)
(* fillDiagonalBox, isSafeInBox, isSafe, solveSudoku and checkWin.         *)
(*                                                                         *)
(* A Board is a 9x9 matrix of (number | null); it is modelled as a         *)
(* function [0..8 -> [0..8 -> 0..9]] with null written Null.               *)
(*                                                                         *)
(* The specifications share the variables and the actions:                 *)
(*   Spec          one run of generateSudoku(diff), step by step;          *)
(*                 Math.random is a stream of draws chosen by a seed in    *)
(*                 1..MaxSeed.                                             *)
(*   SpecSolve     one run of solveSudoku on a grid drawn from ProbeGrids. *)
(*   SpecSolveFair SpecSolve, run to completion.                           *)
(*   SpecEngine    the runs of Spec and those of SpecSolve.                *)
(*   SpecFn        one call of isSafe or of checkWin on a grid drawn from  *)
(*                 ProbeGrids.                                             *)
(*   SpecDraws     Spec with Math.random free to return rejected values;   *)
(*   SpecDrawsFair the same under fair draws.                              *)
(*   SpecSession   the Sudoku session of GameCenter: its state and its     *)
(*                 handlers, with generateSudoku run by startGameSudoku.   *)
(*   SpecPlay      SpecSession with the puzzle filled in by the player, up *)
(*                 to the win and Play Again.                              *)
(*   SpecLeast     the runs of Spec and runs of solveSudoku on grids with  *)
(*                 several completions.                                    *)
(*   SpecStats     the stats of App under the study timer and the          *)
(*                 analyses of LitReview.                                  *)
(* diff is "none" when no generateSudoku call is running.                  *)
(***************************************************************************)
EXTENDS Integers, Sequences, FiniteSets

VARIABLES
    pc,          \* position of the running function
    diff,        \* generateSudoku's argument
    rng,         \* state of the Math.random stream
    b,           \* the board being built / solved / queried (newBoard)
    startRow,    \* fillDiagonalBox: its argument (0, 3, 6)
    fi,          \* fillDiagonalBox: loop variable i
    fj,          \* fillDiagonalBox: loop variable j
    stack,       \* solveSudoku: the active calls, outermost first
    ret,         \* solveSudoku: the value of the return in flight
    input,       \* the board as it was handed to the top-level solveSudoku
    puzzleBoard, \* generateSudoku: the carved copy
    count,       \* generateSudoku: remaining clear budget
    call,        \* the last call of isSafe / checkWin, or of an input
                 \* handler, and its result
    fnum,        \* fillDiagonalBox: the local num (the last draw)
    ci,          \* generateSudoku: the local i of the while loop
    cj,          \* generateSudoku: the local j of the while loop
    shared,      \* the rows of puzzleBoard that are the same array object as
                 \* the row of newBoard: a write to one is a write to both
    isPlayingSudoku, \* GameCenter state
    difficulty,      \* GameCenter state
    initialBoard,    \* GameCenter state ([] is written NoBoard)
    board,           \* GameCenter state ([] is written NoBoard)
    selectedCell,    \* GameCenter state (null is written NoCell)
    message,         \* GameCenter state
    isWon,           \* GameCenter state
    points,          \* stats.points
    games,           \* number of puzzles started so far
    startPoints,     \* stats.points when the last puzzle was started
    minutesStudied,  \* stats.minutesStudied (App)
    papersRead,      \* stats.papersRead (App)
    loading,         \* LitReview state: an analysis request is in flight
    userStats        \* the userStats prop that the running handleAnalyze
                     \* call closed over

\* the state of the GameCenter component
sess == <<isPlayingSudoku, difficulty, initialBoard, board, selectedCell,
          message, isWon, points, games, startPoints>>

\* the stats of App outside the Game Center, and the LitReview component
app == <<minutesStudied, papersRead, loading, userStats>>

vars == <<pc, diff, rng, b, startRow, fi, fj, stack, ret, input,
          puzzleBoard, count, call, fnum, ci, cj, shared, sess, app>>

----------------------------------------------------------------------------
(* Program constants *)

N == 9

BoxN == 3

Null == 0

Idx == 0 .. (N - 1)

Digits == 1 .. N

Difficulty == {"easy", "medium", "hard"}

EasyClears == 30

MediumClears == 45

HardClears == 56

\* Attempts with the budgets of medium and hard exchanged
AttemptsSwapped(d) == IF d = "easy" THEN EasyClears
                      ELSE IF d = "medium" THEN HardClears ELSE MediumClears

\* const attempts = diff === 'easy' ? 30 : diff === 'medium' ? 45 : 56;
Attempts(d) == IF d = "easy" THEN EasyClears
               ELSE IF d = "medium" THEN MediumClears ELSE HardClears

\* Array(9).fill(null).map(() => Array(9).fill(null))
EmptyBoard == [r \in Idx |-> [c \in Idx |-> Null]]

----------------------------------------------------------------------------
(* Bounds of the model *)

\* Math.random streams considered: seeds 1..MaxSeed
MaxSeed == 8

\* probe grids: at most MaxEmpty cells of the window are emptied
MaxEmpty == 2

\* probe grids: the window is the first WinLen cells of ProbeCell
WinLen == 8

----------------------------------------------------------------------------
(* Math.random: a Lehmer stream; Math.floor(Math.random() * 9) is the      *)
(* state modulo 9.                                                         *)

RngMod == 65537

RngMul == 75

\* a generator that returns the same value for ever
NextRngConstant(s) == s

NextRng(s) == (s * RngMul) % RngMod

\* Math.floor(Math.random() * 9), read from the advanced state
Draw9(s) == s % N

----------------------------------------------------------------------------
(* Pure functions *)

\* isSafeInBox with the scan of the first row of the box only
isSafeInBoxFirstRow(g, rowStart, colStart, num) ==
    \A j \in 0 .. (BoxN - 1) : g[rowStart][colStart + j] # num

\* isSafeInBox(b, rowStart, colStart, num)
isSafeInBox(g, rowStart, colStart, num) ==
    \A i \in 0 .. (BoxN - 1) : \A j \in 0 .. (BoxN - 1) :
        g[rowStart + i][colStart + j] # num

\* isSafe without the column test of line 583
isSafeNoCol(g, row, col, num) ==
    LET startR == row - (row % BoxN)
        startC == col - (col % BoxN)
    IN  /\ \A x \in Idx : g[row][x] # num
        /\ \A i \in 0 .. (BoxN - 1) : \A j \in 0 .. (BoxN - 1) :
               g[i + startR][j + startC] # num

\* isSafe with startCol computed from row (line 586)
isSafeWrongBox(g, row, col, num) ==
    LET startR == row - (row % BoxN)
        startC == row - (row % BoxN)
    IN  /\ \A x \in Idx : g[row][x] # num /\ g[x][col] # num
        /\ \A i \in 0 .. (BoxN - 1) : \A j \in 0 .. (BoxN - 1) :
               g[i + startR][j + startC] # num

\* isSafe(b, row, col, num): scans all nine cells of the row, of the column
\* and of the box, the cell (row, col) included.
isSafe(g, row, col, num) ==
    LET startR == row - (row % BoxN)
        startC == col - (col % BoxN)
    IN  /\ \A x \in Idx : g[row][x] # num /\ g[x][col] # num
        /\ \A i \in 0 .. (BoxN - 1) : \A j \in 0 .. (BoxN - 1) :
               g[i + startR][j + startC] # num

\* JavaScript's a % n for n > 0: the sign of the result is the sign of a
JsRem(a, n) == IF a >= 0 THEN a % n ELSE 0 - ((0 - a) % n)

\* b[r] is undefined for r outside 0..8, and b[r][c] then throws a TypeError
RowThrows(r) == r \notin Idx

\* b[r][c] === num for r in 0..8: b[r][c] is undefined for c outside 0..8,
\* and undefined === num is false
CellIs(g, r, c, num) == c \in Idx /\ g[r][c] = num

\* isSafe(b, row, col, num) on any integers: "TypeError" when the first read
\* b[row][0] throws, else the boolean that the three scans return. There is
\* no test of row, col or num.
isSafeJs(g, row, col, num) ==
    IF RowThrows(row) THEN "TypeError"
    ELSE LET startR == row - JsRem(row, BoxN)
             startC == col - JsRem(col, BoxN)
             hit == \/ \E x \in Idx : CellIs(g, row, x, num) \/ CellIs(g, x, col, num)
                    \/ \E i \in 0 .. (BoxN - 1) : \E j \in 0 .. (BoxN - 1) :
                           CellIs(g, i + startR, j + startC, num)
         IN  IF hit THEN "false" ELSE "true"

\* an isSafe that leaves the digit in the cell when the placement is legal
isSafeBoardPlaces(g, row, col, num) ==
    IF isSafe(g, row, col, num)
    THEN [g EXCEPT ![row] = [g[row] EXCEPT ![col] = num]]
    ELSE g

\* the board after isSafe(b, row, col, num): lines 580-593 read b[..][..] and
\* hold no assignment to it
isSafeBoard(g, row, col, num) == g

\* checkWin without the hypothetical emptying of lines 624-626
checkWinNoCopy(current) ==
    \A i \in Idx : \A j \in Idx :
        /\ current[i][j] # Null
        /\ isSafe(current, i, j, current[i][j])

\* checkWin without the isSafe test of line 627
checkWinFilledOnly(current) ==
    \A i \in Idx : \A j \in Idx : current[i][j] # Null

\* checkWin(current): for every cell in row-major order, false on an empty
\* cell; otherwise isSafe on a copy with that cell emptied.
checkWin(current) ==
    \A i \in Idx : \A j \in Idx :
        /\ current[i][j] # Null
        /\ LET val  == current[i][j]
               temp == [current EXCEPT ![i] = [current[i] EXCEPT ![j] = Null]]
           IN  isSafe(temp, i, j, val)

\* solveSudoku's scan: the empty cells, and the first in row-major order
EmptyCells(g) == {p \in Idx \X Idx : g[p[1]][p[2]] = Null}

\* the scan that keeps the last empty cell it meets
FirstEmptyLast(g) ==
    CHOOSE p \in EmptyCells(g) :
        \A q \in EmptyCells(g) : p[1] * N + p[2] >= q[1] * N + q[2]

FirstEmpty(g) ==
    CHOOSE p \in EmptyCells(g) :
        \A q \in EmptyCells(g) : p[1] * N + p[2] <= q[1] * N + q[2]

\* b[row][col] = v
SetCell(g, row, col, v) == [g EXCEPT ![row] = [g[row] EXCEPT ![col] = v]]

\* a copy with the two indexes exchanged
DeepCopyTransposed(g) == [r \in Idx |-> [c \in Idx |-> g[c][r]]]

\* JSON.parse(JSON.stringify(board)): a structural copy, cell by cell
DeepCopy(g) == [r \in Idx |-> [c \in Idx |-> g[r][c]]]

NoCall == [name |-> "none", row |-> -1, col |-> -1, num |-> 0, ret |-> FALSE,
           threw |-> FALSE]

\* useState<Board>([]) and useState<[number, number] | null>(null)
NoBoard == <<>>

NoCell == <<>>

\* the locals of generateSudoku and fillDiagonalBox before their first
\* assignment
LocalsUnset ==
    /\ fnum = 0
    /\ ci = 0
    /\ cj = 0
    /\ shared = {}

\* DEFAULT_STATS (lines 21-26 of part_000) and LitReview as mounted (line 17
\* of part_001)
NoStats == [points |-> 0, minutesStudied |-> 0, papersRead |-> 0]

AppUnused ==
    /\ minutesStudied = 0
    /\ papersRead = 0
    /\ loading = FALSE
    /\ userStats = NoStats

\* the GameCenter component as mounted (lines 528-534), with no points
SessUnused ==
    /\ isPlayingSudoku = FALSE
    /\ difficulty = "easy"
    /\ initialBoard = NoBoard
    /\ board = NoBoard
    /\ selectedCell = NoCell
    /\ message = ""
    /\ isWon = FALSE
    /\ points = 0
    /\ games = 0
    /\ startPoints = 0
    /\ AppUnused

----------------------------------------------------------------------------
(* generateSudoku(diff), lines 537-557                                     *)

\* const newBoard = ...; fillDiagonalBox(newBoard, 0) is entered
InitGen ==
    /\ pc = "fill"
    /\ diff \in Difficulty
    /\ rng \in 1 .. MaxSeed
    /\ b = EmptyBoard
    /\ startRow = 0
    /\ fi = 0
    /\ fj = 0
    /\ stack = <<>>
    /\ ret = FALSE
    /\ input = EmptyBoard
    /\ puzzleBoard = EmptyBoard
    /\ count = 0
    /\ call = NoCall
    /\ LocalsUnset
    /\ SessUnused

\* fillDiagonalBox: one pass of the do-while body and its test. A rejected
\* num repeats the draw; an accepted one is written and the loops advance;
\* after the last cell of the box at 6, solveSudoku(newBoard) is called.
FillDraw ==
    /\ pc = "fill"
    /\ LET s   == NextRng(rng)
           num == Draw9(s) + 1
       IN  /\ rng' = s
           /\ fnum' = num
           /\ IF isSafeInBox(b, startRow, startRow, num)
              THEN /\ b' = SetCell(b, startRow + fi, startRow + fj, num)
                   /\ IF fj < BoxN - 1
                      THEN /\ fj' = fj + 1
                           /\ UNCHANGED <<fi, startRow, pc, input>>
                      ELSE IF fi < BoxN - 1
                      THEN /\ fj' = 0
                           /\ fi' = fi + 1
                           /\ UNCHANGED <<startRow, pc, input>>
                      ELSE IF startRow < N - BoxN
                      THEN /\ fj' = 0
                           /\ fi' = 0
                           /\ startRow' = startRow + BoxN
                           /\ UNCHANGED <<pc, input>>
                      ELSE /\ pc' = "call"
                           /\ input' = b'
                           /\ UNCHANGED <<fi, fj, startRow>>
              ELSE UNCHANGED <<b, fi, fj, startRow, pc, input>>
    /\ UNCHANGED <<diff, stack, ret, puzzleBoard, count, call>>
    /\ UNCHANGED <<ci, cj, shared, sess, app>>

----------------------------------------------------------------------------
(* solveSudoku(b), lines 595-617. A frame of the stack is one active call: *)
(* its row, col and num, and a record of the board on its entry.           *)

Top == stack[Len(stack)]

\* lines 596-607: the scan for the first empty cell
SolveCall ==
    /\ pc = "call"
    /\ LET isEmpty == EmptyCells(b) = {}
           cell    == IF isEmpty THEN <<-1, -1>> ELSE FirstEmpty(b)
       IN  /\ stack' = Append(stack, [row |-> cell[1], col |-> cell[2],
                                      num |-> 1, entry |-> b])
           /\ IF isEmpty
              THEN pc' = "return" /\ ret' = TRUE
              ELSE pc' = "loop" /\ UNCHANGED ret
    /\ UNCHANGED <<diff, rng, b, startRow, fi, fj, input, puzzleBoard,
                   count, call>>
    /\ UNCHANGED <<fnum, ci, cj, shared, sess, app>>

\* the for loop's test with < for <=
LoopTestStrict(num) == num < N

\* line 609: num <= 9
LoopTest(num) == num <= N

\* the for loop without its increment
NextNumStuck(num) == num

\* line 609: num++
NextNum(num) == num + 1

\* line 613 left out
UndoMissing(g, row, col) == g

\* line 613: b[row][col] = null after a failed recursive call
Undo(g, row, col) == SetCell(g, row, col, Null)

\* lines 609-616: one test of the for loop and of isSafe
SolveLoop ==
    /\ pc = "loop"
    /\ LET f == Top
       IN  IF LoopTest(f.num)
           THEN IF isSafe(b, f.row, f.col, f.num)
                THEN /\ b' = SetCell(b, f.row, f.col, f.num)
                     /\ pc' = "call"
                     /\ UNCHANGED <<stack, ret>>
                ELSE /\ stack' = [stack EXCEPT ![Len(stack)].num = NextNum(f.num)]
                     /\ UNCHANGED <<b, pc, ret>>
           ELSE /\ ret' = FALSE
                /\ pc' = "return"
                /\ UNCHANGED <<b, stack>>
    /\ UNCHANGED <<diff, rng, startRow, fi, fj, input, puzzleBoard,
                   count, call>>
    /\ UNCHANGED <<fnum, ci, cj, shared, sess, app>>

\* the return of a call: to the caller's line 612, or out of the top-level
\* call
SolveReturn ==
    /\ pc = "return"
    /\ LET rest == SubSeq(stack, 1, Len(stack) - 1)
       IN  IF rest = <<>>
           THEN /\ stack' = rest
                /\ pc' = "solved"
                /\ UNCHANGED <<b, ret>>
           ELSE LET f == rest[Len(rest)]
                IN  IF ret
                    THEN /\ stack' = rest
                         /\ UNCHANGED <<b, pc, ret>>
                    ELSE /\ b' = Undo(b, f.row, f.col)
                         /\ stack' = [rest EXCEPT ![Len(rest)].num = NextNum(f.num)]
                         /\ pc' = "loop"
                         /\ UNCHANGED ret
    /\ UNCHANGED <<diff, rng, startRow, fi, fj, input, puzzleBoard,
                   count, call>>
    /\ UNCHANGED <<fnum, ci, cj, shared, sess, app>>

----------------------------------------------------------------------------
(* generateSudoku, lines 544-556: the carving                              *)

\* a shallow copy ([...newBoard]): every row is shared
SharedRowsShallow == Idx

\* line 545: JSON.parse(JSON.stringify(newBoard)) builds new row arrays, so
\* no row of the copy is a row of newBoard
SharedRows == {}

\* the effect on board g of the write [i][j] = v to a board whose rows rows
\* are shared with g
WriteThrough(g, rows, i, j, v) == IF i \in rows THEN SetCell(g, i, j, v) ELSE g

\* lines 544-547, when solveSudoku was called by generateSudoku: its result
\* is not read
StartCarve ==
    /\ pc = "solved"
    /\ diff \in Difficulty
    /\ puzzleBoard' = DeepCopy(b)
    /\ shared' = SharedRows
    /\ count' = Attempts(diff)
    /\ pc' = "carve"
    /\ UNCHANGED <<diff, rng, b, startRow, fi, fj, stack, ret, input, call>>
    /\ UNCHANGED <<fnum, ci, cj, sess, app>>

\* the clearing with row and column exchanged
CarveTransposed(p, i, j) == SetCell(p, j, i, Null)

\* lines 551-554
Carve(p, i, j) == SetCell(p, i, j, Null)

\* lines 548-555: one iteration of the while loop
CarveDraw ==
    /\ pc = "carve"
    /\ count > 0
    /\ LET s1 == NextRng(rng)
           s2 == NextRng(s1)
           i  == Draw9(s1)
           j  == Draw9(s2)
       IN  /\ rng' = s2
           /\ ci' = i
           /\ cj' = j
           /\ IF puzzleBoard[i][j] # Null
              THEN /\ puzzleBoard' = Carve(puzzleBoard, i, j)
                   /\ b' = WriteThrough(b, shared, i, j, Null)
                   /\ count' = count - 1
              ELSE UNCHANGED <<puzzleBoard, b, count>>
    /\ UNCHANGED <<pc, diff, startRow, fi, fj, stack, ret, input, call>>
    /\ UNCHANGED <<fnum, shared, sess, app>>

\* line 556: return { solved: newBoard, puzzle: puzzleBoard }
GenReturn ==
    /\ pc = "carve"
    /\ count <= 0
    /\ pc' = "done"
    /\ UNCHANGED <<diff, rng, b, startRow, fi, fj, stack, ret, input,
                   puzzleBoard, count, call>>
    /\ UNCHANGED <<fnum, ci, cj, shared, sess, app>>

\* temp without the copy of row i of line 625: every row is current's
TempRowsNoCopy(i) == Idx

\* lines 624-625: temp = [...current] shares every row with current, and
\* temp[i] = [...current[i]] replaces row i by a new array; the rows of
\* temp that are rows of current
TempRows(i) == Idx \ {i}

\* the grid current when the loops of checkWin (lines 620-629) come to the
\* k-th cell in the order of rows, then columns: each cell before it has
\* been through line 626, and the write temp[i][j] = null has reached
\* current where the row of temp is a row of current
checkWinAt(current, k) ==
    [r \in Idx |-> [c \in Idx |->
        IF r * N + c < k /\ r \in TempRows(r) THEN Null ELSE current[r][c]]]

\* the loops return false at the k-th cell: the cell is empty (line 622), or
\* isSafe fails on temp (line 627)
checkWinStops(current, k) ==
    LET g == checkWinAt(current, k)
        i == k \div N
        j == k % N
    IN  \/ g[i][j] = Null
        \/ ~isSafe(SetCell(g, i, j, Null), i, j, g[i][j])

\* the caller's grid after checkWin(current): the loops end at the first
\* cell where they return false, before line 626 on an empty cell and after
\* it otherwise
checkWinBoard(current) ==
    LET stops == {k \in 0 .. (N * N - 1) : checkWinStops(current, k)}
    IN  IF stops = {} THEN checkWinAt(current, N * N)
        ELSE LET k == CHOOSE m \in stops : \A n \in stops : m <= n
             IN  IF checkWinAt(current, k)[k \div N][k % N] = Null
                 THEN checkWinAt(current, k)
                 ELSE checkWinAt(current, k + 1)

\* checkWin(current) applied to the board b
CallCheckWin ==
    /\ pc \in {"done", "probe"}
    /\ call.name = "none"
    /\ call' = [name |-> "checkWin", row |-> -1, col |-> -1, num |-> 0,
                ret |-> checkWin(b), threw |-> FALSE]
    /\ b' = checkWinBoard(b)
    /\ UNCHANGED <<pc, diff, rng, startRow, fi, fj, stack, ret, input,
                   puzzleBoard, count>>
    /\ UNCHANGED <<fnum, ci, cj, shared, sess, app>>

Next ==
    \/ FillDraw
    \/ SolveCall
    \/ SolveLoop
    \/ SolveReturn
    \/ StartCarve
    \/ CarveDraw
    \/ GenReturn
    \/ CallCheckWin

Spec == InitGen /\ [][Next]_vars

----------------------------------------------------------------------------
(* Math.random() as a source that may return any value. The draws that the *)
(* loops accept are those of the stream; a draw that a loop rejects can be *)
(* any rejected value, any number of times.                                *)

\* lines 563-565: a pass of the do-while that draws a digit of the box
FillMiss ==
    /\ pc = "fill"
    /\ \E num \in Digits :
           /\ ~isSafeInBox(b, startRow, startRow, num)
           /\ fnum' = num
    /\ UNCHANGED <<pc, diff, rng, b, startRow, fi, fj, stack, ret, input,
                   puzzleBoard, count, call>>
    /\ UNCHANGED <<ci, cj, shared, sess, app>>

\* the number of empty cells that a rejected draw of the carving chooses from
MaxMiss == 2

\* the k-th cell in the order of rows, then columns
CellAt(k) == <<k \div N, k % N>>

\* the first n cells of S in that order
FirstOf(S, n) ==
    LET ks == {k \in 0 .. (N * N - 1) : CellAt(k) \in S}
    IN  {CellAt(k) : k \in {m \in ks : Cardinality(ks \cap (0 .. (m - 1))) < n}}

\* the empty cells of p that a rejected draw chooses from
MissCells(p) == FirstOf(EmptyCells(p), MaxMiss)

\* lines 548-555: an iteration of the while loop that draws an empty cell
CarveMiss ==
    /\ pc = "carve"
    /\ count > 0
    /\ \E c \in MissCells(puzzleBoard) :
           /\ ci' = c[1]
           /\ cj' = c[2]
    /\ UNCHANGED <<pc, diff, rng, b, startRow, fi, fj, stack, ret, input,
                   puzzleBoard, count, call>>
    /\ UNCHANGED <<fnum, shared, sess, app>>

NextDraws ==
    \/ Next
    \/ FillMiss
    \/ CarveMiss

\* generateSudoku runs on the calling thread: some step is taken
SpecDraws == InitGen /\ [][NextDraws]_vars /\ WF_vars(NextDraws)

\* fair draws: a loop that draws for ever draws the values of the stream
SpecDrawsFair == SpecDraws /\ WF_vars(FillDraw) /\ WF_vars(CarveDraw)

----------------------------------------------------------------------------
(* The Sudoku session of GameCenter, lines 525-704 and 706-822: the state  *)
(* of the component and its handlers. pc is "idle" between two handlers;   *)
(* startGameSudoku runs generateSudoku, step by step, to its return before *)
(* any other handler runs.                                                 *)

\* line 524
COST_TO_PLAY_SUDOKU == 50

\* line 660
EasyBonus == 20

MediumBonus == 50

HardBonus == 100

Bonus(d) ==
    IF d = "easy" THEN EasyBonus
    ELSE IF d = "medium" THEN MediumBonus ELSE HardBonus

\* the balances stats.points a session begins with: too few points for a
\* puzzle, and the points for one
InitPoints == {0, COST_TO_PLAY_SUDOKU}

\* the puzzles started in a session
MaxGames == 2

\* the empty cells of the puzzle that the player selects among
MaxSel == 2

\* the cells the player clicks: the first MaxSel empty cells of the initial
\* board and its first clue cell
SelectCells ==
    FirstOf(EmptyCells(initialBoard), MaxSel) \cup
    FirstOf((Idx \X Idx) \ EmptyCells(initialBoard), 1)

\* the digits the player enters in the selected cell: the digit of the
\* solved grid and another one
InputDigits ==
    IF selectedCell = NoCell THEN {1}
    ELSE LET d == b[selectedCell[1]][selectedCell[2]]
         IN  {d, (d % N) + 1}

InitSession ==
    /\ pc = "idle"
    /\ diff = "none"
    /\ rng \in 1 .. MaxSeed
    /\ b = EmptyBoard
    /\ startRow = 0
    /\ fi = 0
    /\ fj = 0
    /\ stack = <<>>
    /\ ret = FALSE
    /\ input = EmptyBoard
    /\ puzzleBoard = EmptyBoard
    /\ count = 0
    /\ call = NoCall
    /\ LocalsUnset
    /\ isPlayingSudoku = FALSE
    /\ difficulty = "easy"
    /\ initialBoard = NoBoard
    /\ board = NoBoard
    /\ selectedCell = NoCell
    /\ message = ""
    /\ isWon = FALSE
    /\ points \in InitPoints
    /\ games = 0
    /\ startPoints = points
    /\ AppUnused

\* line 724: onClick={() => setDifficulty(d)}, on the start screen
SetDifficulty ==
    /\ pc = "idle"
    /\ ~isPlayingSudoku
    /\ \E d \in Difficulty : difficulty' = d
    /\ UNCHANGED <<pc, diff, rng, b, startRow, fi, fj, stack, ret, input,
                   puzzleBoard, count, call, fnum, ci, cj, shared>>
    /\ UNCHANGED <<isPlayingSudoku, initialBoard, board, selectedCell,
                   message, isWon, points, games, startPoints, app>>

\* the test that lets every balance pay
TooFewNever(p) == FALSE

\* line 634: stats.points < COST_TO_PLAY_SUDOKU
TooFew(p) == p < COST_TO_PLAY_SUDOKU

\* lines 634-637: startGameSudoku with too few points
StartGameRejected ==
    /\ pc = "idle"
    /\ ~isPlayingSudoku
    /\ TooFew(points)
    /\ message' = "Insufficient Points. Need 50."
    /\ UNCHANGED <<pc, diff, rng, b, startRow, fi, fj, stack, ret, input,
                   puzzleBoard, count, call, fnum, ci, cj, shared>>
    /\ UNCHANGED <<isPlayingSudoku, difficulty, initialBoard, board,
                   selectedCell, isWon, points, games, startPoints, app>>

\* lines 638-640: startGameSudoku pays and enters generateSudoku(difficulty)
StartGameSudoku ==
    /\ pc = "idle"
    /\ ~isPlayingSudoku
    /\ ~TooFew(points)
    /\ games < MaxGames
    /\ points' = points - COST_TO_PLAY_SUDOKU
    /\ games' = games + 1
    /\ pc' = "fill"
    /\ diff' = difficulty
    /\ b' = EmptyBoard
    /\ startRow' = 0
    /\ fi' = 0
    /\ fj' = 0
    /\ stack' = <<>>
    /\ ret' = FALSE
    /\ input' = EmptyBoard
    /\ puzzleBoard' = EmptyBoard
    /\ count' = 0
    /\ call' = NoCall
    /\ fnum' = 0
    /\ ci' = 0
    /\ cj' = 0
    /\ shared' = {}
    /\ startPoints' = points
    /\ UNCHANGED <<rng, isPlayingSudoku, difficulty, initialBoard, board,
                   selectedCell, message, isWon, app>>

\* lines 640-646: generateSudoku has returned; the puzzle becomes the board
\* and a copy of it the initial board
StartFinish ==
    /\ pc = "done"
    /\ initialBoard' = DeepCopy(puzzleBoard)
    /\ board' = puzzleBoard
    /\ isPlayingSudoku' = TRUE
    /\ isWon' = FALSE
    /\ message' = ""
    /\ selectedCell' = NoCell
    /\ pc' = "idle"
    /\ UNCHANGED <<diff, rng, b, startRow, fi, fj, stack, ret, input,
                   puzzleBoard, count, call, fnum, ci, cj, shared>>
    /\ UNCHANGED <<difficulty, points, games, startPoints, app>>

\* line 765: onClick={() => setSelectedCell([rIdx, cIdx])}
SelectCell ==
    /\ pc = "idle"
    /\ isPlayingSudoku
    /\ \E p \in SelectCells : selectedCell' = p
    /\ UNCHANGED <<pc, diff, rng, b, startRow, fi, fj, stack, ret, input,
                   puzzleBoard, count, call, fnum, ci, cj, shared>>
    /\ UNCHANGED <<isPlayingSudoku, difficulty, initialBoard, board, message,
                   isWon, points, games, startPoints, app>>

\* the guard without the test of the initial board
IsClueNever(ib, r, c) == FALSE

\* lines 652 and 669: initialBoard[r][c] !== null
IsClue(ib, r, c) == ib[r][c] # Null

\* lines 654 and 671: board.map(row => [...row]) builds new row arrays, so
\* the copy shares no row with another grid
MapCopy(rows) == {}

\* the guard without the test of isWon
LockedNoWon(sel, won) == sel = NoCell

\* lines 650 and 667: !selectedCell || isWon
Locked(sel, won) == sel = NoCell \/ won

\* the record of a handler call: the selected cell, the digit, and whether
\* the handler went on to write
HandlerCall(name, num, wrote) ==
    [name |-> name,
     row |-> IF selectedCell = NoCell THEN -1 ELSE selectedCell[1],
     col |-> IF selectedCell = NoCell THEN -1 ELSE selectedCell[2],
     num |-> num, ret |-> wrote, threw |-> FALSE]

\* handleNumberInput(num), lines 649-664
HandleNumberInput ==
    /\ pc = "idle"
    /\ isPlayingSudoku
    /\ \E num \in InputDigits :
           IF Locked(selectedCell, isWon)
           THEN /\ call' = HandlerCall("handleNumberInput", num, FALSE)
                /\ UNCHANGED <<board, b, shared, isWon, message, points>>
           ELSE LET r == selectedCell[1]
                    c == selectedCell[2]
                    newBoard == SetCell(board, r, c, num)
                IN  IF IsClue(initialBoard, r, c)
                    THEN /\ call' = HandlerCall("handleNumberInput", num, FALSE)
                         /\ UNCHANGED <<board, b, shared, isWon, message,
                                        points>>
                    ELSE /\ call' = HandlerCall("handleNumberInput", num, TRUE)
                         /\ board' = newBoard
                         /\ shared' = MapCopy(shared)
                         /\ b' = WriteThrough(b, MapCopy(shared), r, c, num)
                         /\ IF checkWin(newBoard)
                            THEN /\ isWon' = TRUE
                                 /\ message' = "Congratulations! Puzzle Solved!"
                                 /\ points' = points - COST_TO_PLAY_SUDOKU
                                                + Bonus(difficulty)
                            ELSE UNCHANGED <<isWon, message, points>>
    /\ UNCHANGED <<pc, diff, rng, startRow, fi, fj, stack, ret, input,
                   puzzleBoard, count, fnum, ci, cj>>
    /\ UNCHANGED <<isPlayingSudoku, difficulty, initialBoard, selectedCell,
                   games, startPoints, app>>

\* handleDelete(), lines 666-674
HandleDelete ==
    /\ pc = "idle"
    /\ isPlayingSudoku
    /\ IF Locked(selectedCell, isWon)
       THEN /\ call' = HandlerCall("handleDelete", Null, FALSE)
            /\ UNCHANGED <<board, b, shared>>
       ELSE LET r == selectedCell[1]
                c == selectedCell[2]
            IN  IF IsClue(initialBoard, r, c)
                THEN /\ call' = HandlerCall("handleDelete", Null, FALSE)
                     /\ UNCHANGED <<board, b, shared>>
                ELSE /\ call' = HandlerCall("handleDelete", Null, TRUE)
                     /\ board' = SetCell(board, r, c, Null)
                     /\ shared' = MapCopy(shared)
                     /\ b' = WriteThrough(b, MapCopy(shared), r, c, Null)
    /\ UNCHANGED <<pc, diff, rng, startRow, fi, fj, stack, ret, input,
                   puzzleBoard, count, fnum, ci, cj>>
    /\ UNCHANGED <<isPlayingSudoku, difficulty, initialBoard, selectedCell,
                   message, isWon, points, games, startPoints, app>>

\* line 815: Quit Game, confirmed: setIsPlayingSudoku(false)
QuitGame ==
    /\ pc = "idle"
    /\ isPlayingSudoku
    /\ isPlayingSudoku' = FALSE
    /\ UNCHANGED <<pc, diff, rng, b, startRow, fi, fj, stack, ret, input,
                   puzzleBoard, count, call, fnum, ci, cj, shared>>
    /\ UNCHANGED <<difficulty, initialBoard, board, selectedCell, message,
                   isWon, points, games, startPoints, app>>

\* line 788: Play Again, shown in place of the digit buttons once the puzzle
\* is won: setIsPlayingSudoku(false)
PlayAgain ==
    /\ pc = "idle"
    /\ isPlayingSudoku
    /\ isWon
    /\ isPlayingSudoku' = FALSE
    /\ UNCHANGED <<pc, diff, rng, b, startRow, fi, fj, stack, ret, input,
                   puzzleBoard, count, call, fnum, ci, cj, shared>>
    /\ UNCHANGED <<difficulty, initialBoard, board, selectedCell, message,
                   isWon, points, games, startPoints, app>>

\* the empty cells of the puzzle outside SelectCells
RestCells == EmptyCells(initialBoard) \ SelectCells

\* the last cell of a set of cells in row-major order
LastOf(S) ==
    CellAt(CHOOSE k \in 0 .. (N * N - 1) :
               /\ CellAt(k) \in S
               /\ \A j \in (k + 1) .. (N * N - 1) : CellAt(j) \notin S)

\* g with the digits of the solved grid in the given cells
Entered(g, cells) ==
    [r \in Idx |-> [c \in Idx |->
        IF <<r, c>> \in cells THEN b[r][c] ELSE g[r][c]]]

\* The player clicks each cell of RestCells in row-major order (line 765)
\* and enters the digit of the solved grid in it (handleNumberInput, lines
\* 649-664): one click and one call per cell, taken together. The cells of
\* SelectCells stay empty, so checkWin (line 658) is false after every one
\* of these calls and each only sets the board.
EnterRest ==
    /\ pc = "idle"
    /\ isPlayingSudoku
    /\ ~isWon
    /\ board = initialBoard
    /\ RestCells # {}
    /\ LET last == LastOf(RestCells)
           newBoard == Entered(board, RestCells)
       IN  /\ selectedCell' = last
           /\ call' = [name |-> "handleNumberInput", row |-> last[1],
                       col |-> last[2], num |-> b[last[1]][last[2]],
                       ret |-> TRUE, threw |-> FALSE]
           /\ board' = newBoard
           /\ shared' = MapCopy(shared)
           /\ IF checkWin(newBoard)
              THEN /\ isWon' = TRUE
                   /\ message' = "Congratulations! Puzzle Solved!"
                   /\ points' = points - COST_TO_PLAY_SUDOKU
                                  + Bonus(difficulty)
              ELSE UNCHANGED <<isWon, message, points>>
    /\ UNCHANGED <<pc, diff, rng, b, startRow, fi, fj, stack, ret, input,
                   puzzleBoard, count, fnum, ci, cj>>
    /\ UNCHANGED <<isPlayingSudoku, difficulty, initialBoard, games,
                   startPoints, app>>

NextSession ==
    \/ SetDifficulty
    \/ StartGameRejected
    \/ StartGameSudoku
    \/ FillDraw
    \/ SolveCall
    \/ SolveLoop
    \/ SolveReturn
    \/ StartCarve
    \/ CarveDraw
    \/ GenReturn
    \/ StartFinish
    \/ SelectCell
    \/ HandleNumberInput
    \/ HandleDelete
    \/ QuitGame

SpecSession == InitSession /\ [][NextSession]_vars

\* the number of seeds of the sessions that are played to a win
MaxPlaySeed == 1

\* these seeds: every third one, from 1
PlaySeeds == {3 * k - 2 : k \in 1 .. MaxPlaySeed}

InitPlay ==
    /\ InitSession
    /\ rng \in PlaySeeds

NextPlay ==
    \/ NextSession
    \/ EnterRest
    \/ PlayAgain

\* SpecSession played further: the player fills the puzzle
SpecPlay == InitPlay /\ [][NextPlay]_vars

----------------------------------------------------------------------------
(* The stats of App while the Literature Review is shown: the study timer  *)
(* of App (part_000, lines 100-117), updateStats (lines 84-89) and         *)
(* handleAnalyze of LitReview (part_001, lines 67-106). The timer callback *)
(* and the two halves of handleAnalyze, before and after its await, are    *)
(* tasks of one event loop: each runs to its end, in any order.            *)

\* the minutes the timer credits in a run
MaxTicks == 5

\* the analyses completed in a run
MaxPapers == 2

\* line 108: 10 points per minute
PointsPerMinute == 10

\* the stats object of the current render
Stats ==
    [points |-> points, minutesStudied |-> minutesStudied,
     papersRead |-> papersRead]

InitStats ==
    /\ InitSession
    /\ rng = 1

\* lines 103-113 of part_000: a tick of setInterval with the window focused
\* and a view other than the Game Center; setStats(prev => ...) reads the
\* stats in force when the update is applied
TimerTick ==
    /\ pc = "idle"
    /\ minutesStudied < MaxTicks
    /\ minutesStudied' = minutesStudied + 1
    /\ points' = points + PointsPerMinute
    /\ UNCHANGED <<pc, diff, rng, b, startRow, fi, fj, stack, ret, input,
                   puzzleBoard, count, call, fnum, ci, cj, shared>>
    /\ UNCHANGED <<isPlayingSudoku, difficulty, initialBoard, board,
                   selectedCell, message, isWon, games, startPoints>>
    /\ UNCHANGED <<papersRead, loading, userStats>>

\* lines 67-79 of part_001: handleAnalyze up to its await; the submit button
\* is disabled while loading (line 269). The call keeps the userStats prop
\* of the render it was created in.
HandleAnalyze ==
    /\ pc = "idle"
    /\ ~loading
    /\ papersRead < MaxPapers
    /\ loading' = TRUE
    /\ userStats' = Stats
    /\ UNCHANGED <<pc, diff, rng, b, startRow, fi, fj, stack, ret, input,
                   puzzleBoard, count, call, fnum, ci, cj, shared>>
    /\ UNCHANGED <<sess, minutesStudied, papersRead>>

\* the stats that a response merges from the current ones
FromCurrent(kept, current) == current

\* lines 94-97 of part_001: { ...userStats, papersRead: userStats.papersRead
\* + 1 }, built from the stats the call has kept
FromClosure(kept, current) == kept

\* lines 79-98 and 102-104 of part_001: analyzeLiterature resolves; the
\* stats built at lines 94-97 go to updateStats, which stores the object as
\* it is (setStats(newStats), line 85 of part_000)
AnalyzeResponse ==
    /\ pc = "idle"
    /\ loading
    /\ LET old == FromClosure(userStats, Stats)
       IN  /\ points' = old.points
           /\ minutesStudied' = old.minutesStudied
           /\ papersRead' = old.papersRead + 1
    /\ loading' = FALSE
    /\ userStats' = NoStats
    /\ UNCHANGED <<pc, diff, rng, b, startRow, fi, fj, stack, ret, input,
                   puzzleBoard, count, call, fnum, ci, cj, shared>>
    /\ UNCHANGED <<isPlayingSudoku, difficulty, initialBoard, board,
                   selectedCell, message, isWon, games, startPoints>>

\* lines 99-104 of part_001: analyzeLiterature rejects; catch and finally
AnalyzeFails ==
    /\ pc = "idle"
    /\ loading
    /\ loading' = FALSE
    /\ userStats' = NoStats
    /\ UNCHANGED <<pc, diff, rng, b, startRow, fi, fj, stack, ret, input,
                   puzzleBoard, count, call, fnum, ci, cj, shared>>
    /\ UNCHANGED <<sess, minutesStudied, papersRead>>

NextStats ==
    \/ TimerTick
    \/ HandleAnalyze
    \/ AnalyzeResponse
    \/ AnalyzeFails

SpecStats == InitStats /\ [][NextStats]_vars

----------------------------------------------------------------------------
(* Probe grids: the inputs of SpecSolve and SpecFn. A legal full grid with  *)
(* at most MaxEmpty cells of a window emptied and at most one cell of the  *)
(* window overwritten by any digit, and the legal grid with any one of its *)
(* 81 cells emptied. They include the legal grid,                          *)
(* grids with empty cells that have a completion, grids without conflict   *)
(* that have none, and grids whose filled cells conflict.                  *)

BaseGrid ==
    [r \in Idx |-> [c \in Idx |->
        ((c + 2 * N - BoxN * (r % BoxN) - (r \div BoxN)) % N) + 1]]

Window == {<<k % 2, k \div 2>> : k \in 0 .. (WinLen - 1)}

RECURSIVE EmptyAll(_, _)
EmptyAll(g, cells) ==
    IF cells = {} THEN g
    ELSE LET p == CHOOSE q \in cells : TRUE
         IN  EmptyAll(SetCell(g, p[1], p[2], Null), cells \ {p})

ProbeGrids ==
    LET Emptied == {EmptyAll(BaseGrid, E) :
                       E \in {X \in SUBSET Window : Cardinality(X) <= MaxEmpty}}
    IN  Emptied \cup
        {EmptyAll(BaseGrid, {p}) : p \in Idx \X Idx} \cup
        {SetCell(g, p[1], p[2], d) :
            g \in Emptied,
            p \in Window,
            d \in Digits}

\* solveSudoku(b) on a probe grid
InitSolve ==
    /\ pc = "call"
    /\ diff = "none"
    /\ rng = 0
    /\ b \in ProbeGrids
    /\ input = b
    /\ startRow = 0
    /\ fi = 0
    /\ fj = 0
    /\ stack = <<>>
    /\ ret = FALSE
    /\ puzzleBoard = EmptyBoard
    /\ count = 0
    /\ call = NoCall
    /\ LocalsUnset
    /\ SessUnused

NextSolve ==
    \/ SolveCall
    \/ SolveLoop
    \/ SolveReturn

SpecSolve == InitSolve /\ [][NextSolve]_vars

\* solveSudoku runs on the calling thread and nothing else runs: a step
\* that can be taken is taken
SpecSolveFair == SpecSolve /\ WF_vars(NextSolve)

\* Grids with more than one completion: the legal grid with the cells of
\* two rows of a band emptied in three columns that are three apart. The
\* three digits of the one row are the three digits of the other, in
\* another order, so the two rows can exchange them.
TwinCells(r1, r2, k) ==
    {<<r, k + BoxN * m>> : r \in {r1, r2}, m \in 0 .. (BoxN - 1)}

TwinGrids ==
    {EmptyAll(BaseGrid, TwinCells(BoxN * band + x, BoxN * band + y, k)) :
        band \in 0 .. (BoxN - 1),
        x \in 0 .. (BoxN - 1),
        y \in 0 .. (BoxN - 1),
        k \in 0 .. (BoxN - 1)} \ {BaseGrid}

\* solveSudoku(b) on a grid with more than one completion
InitTwin ==
    /\ pc = "call"
    /\ diff = "none"
    /\ rng = 0
    /\ b \in TwinGrids
    /\ input = b
    /\ startRow = 0
    /\ fi = 0
    /\ fj = 0
    /\ stack = <<>>
    /\ ret = FALSE
    /\ puzzleBoard = EmptyBoard
    /\ count = 0
    /\ call = NoCall
    /\ LocalsUnset
    /\ SessUnused

\* solveSudoku called by generateSudoku or on a grid with more than one
\* completion
InitLeast == InitGen \/ InitTwin

SpecLeast == InitLeast /\ [][Next]_vars

\* solveSudoku called by generateSudoku or on a probe grid
InitEngine == InitGen \/ InitSolve

SpecEngine == InitEngine /\ [][Next]_vars

\* isSafe or checkWin on a probe grid
InitFn ==
    /\ pc = "probe"
    /\ diff = "none"
    /\ rng = 0
    /\ b \in ProbeGrids
    /\ input = b
    /\ startRow = 0
    /\ fi = 0
    /\ fj = 0
    /\ stack = <<>>
    /\ ret = FALSE
    /\ puzzleBoard = EmptyBoard
    /\ count = 0
    /\ call = NoCall
    /\ LocalsUnset
    /\ SessUnused

\* isSafe(b, row, col, num) for a cell of the window or an empty cell, and
\* any digit
CallIsSafe ==
    /\ pc = "probe"
    /\ call.name = "none"
    /\ \E p \in Window \cup EmptyCells(b) : \E num \in Digits :
           /\ call' = [name |-> "isSafe", row |-> p[1], col |-> p[2],
                       num |-> num, ret |-> isSafe(b, p[1], p[2], num),
                       threw |-> FALSE]
           /\ b' = isSafeBoard(b, p[1], p[2], num)
    /\ UNCHANGED <<pc, diff, rng, startRow, fi, fj, stack, ret, input,
                   puzzleBoard, count>>
    /\ UNCHANGED <<fnum, ci, cj, shared, sess, app>>

\* arguments at and beyond the ends of the ranges 0..8 and 1..9
RawIdx == {-1, 0, N - 1, N}

RawDigits == {0, 1, N, N + 1}

\* isSafe(b, row, col, num) with row or col outside 0..8 or num outside 1..9
CallIsSafeRaw ==
    /\ pc = "probe"
    /\ call.name = "none"
    /\ \E row \in RawIdx : \E col \in RawIdx : \E d \in RawDigits :
           /\ row \notin Idx \/ col \notin Idx \/ d \notin Digits
           /\ LET r == isSafeJs(b, row, col, d)
              IN  call' = [name |-> "isSafeRaw", row |-> row, col |-> col,
                           num |-> d, ret |-> (r = "true"),
                           threw |-> (r = "TypeError")]
    /\ UNCHANGED <<pc, diff, rng, b, startRow, fi, fj, stack, ret, input,
                   puzzleBoard, count>>
    /\ UNCHANGED <<fnum, ci, cj, shared, sess, app>>

NextFn ==
    \/ CallIsSafe
    \/ CallIsSafeRaw
    \/ CallCheckWin

SpecFn == InitFn /\ [][NextFn]_vars

----------------------------------------------------------------------------
(* The vocabulary of the properties: the 27 groups of a grid               *)

At(g, p) == g[p[1]][p[2]]

RowCells(r) == {<<r, c>> : c \in Idx}

ColCells(c) == {<<r, c>> : r \in Idx}

BoxCells(br, bc) ==
    {<<br * BoxN + i, bc * BoxN + j>> :
        i \in 0 .. (BoxN - 1), j \in 0 .. (BoxN - 1)}

BoxOf(p) == BoxCells(p[1] \div BoxN, p[2] \div BoxN)

Groups ==
    {RowCells(r) : r \in Idx} \cup {ColCells(c) : c \in Idx} \cup
    {BoxCells(br, bc) : br \in 0 .. (BoxN - 1), bc \in 0 .. (BoxN - 1)}

\* the cells of group G hold every digit 1..9 (hence each exactly once)
IsPerm(g, G) == {At(g, p) : p \in G} = Digits

\* every row, column and box is a permutation of 1..9
Legal(g) == \A G \in Groups : IsPerm(g, G)

\* no digit occurs twice in a row, column or box
NoDup(g) ==
    \A G \in Groups :
        Cardinality({At(g, p) : p \in G} \ {Null}) =
            Cardinality({p \in G : At(g, p) # Null})

Full(g) == EmptyCells(g) = {}

FilledCount(g) == Cardinality((Idx \X Idx) \ EmptyCells(g))

\* h agrees with g on every filled cell of g
Extends(h, g) ==
    \A p \in Idx \X Idx : At(g, p) # Null => At(h, p) = At(g, p)

----------------------------------------------------------------------------
(* Properties of generateSudoku (specification Spec)                       *)

\* C1: the solved grid that generateSudoku returns has no empty cell, and
\* each of its rows, columns and boxes holds every digit 1..9 exactly once.
C1_SolvedGridLegal ==
    pc = "done" => Full(b) /\ Legal(b) /\ NoDup(b)

C1_Witness ==
    /\ pc = "done"
    /\ diff = "hard"
    /\ Full(b)
    /\ Legal(b)

\* C2: the puzzle grid that generateSudoku returns has 51 non-empty cells
\* for easy, 36 for medium and 25 for hard (81 minus 30, 45, 56).
C2_ClueCount ==
    pc = "done" =>
        /\ diff = "easy" => FilledCount(puzzleBoard) = 51
        /\ diff = "medium" => FilledCount(puzzleBoard) = 36
        /\ diff = "hard" => FilledCount(puzzleBoard) = 25

C2_Witness ==
    /\ pc = "done"
    /\ diff = "medium"
    /\ FilledCount(puzzleBoard) = 36

\* C3: while carving and in the result, every non-empty cell of the puzzle
\* grid holds the digit of the same cell of the solved grid, and the solved
\* grid is a legal completion of the puzzle.
C3_PuzzleSubsetOfSolved ==
    pc \in {"carve", "done"} =>
        /\ Extends(b, puzzleBoard)
        /\ (pc = "done" => Legal(b))

C3_Witness ==
    /\ pc = "done"
    /\ diff = "easy"
    /\ Extends(b, puzzleBoard)
    /\ EmptyCells(puzzleBoard) # {}
    /\ FilledCount(puzzleBoard) > 0

----------------------------------------------------------------------------
(* Properties of isSafe and checkWin (specification SpecFn; C6: Spec)      *)

\* the cells of the row, the column and the box of p
Peers(p) == RowCells(p[1]) \cup ColCells(p[2]) \cup BoxOf(p)

CallCell == <<call.row, call.col>>

\* C4 as claimed: isSafe returns false if and only if the digit appears in
\* one of the other 8 cells of the row, of the column or of the box; the
\* content of the cell (row, col) does not matter.
C4_OtherCellsOnly ==
    call.name = "isSafe" =>
        (call.ret = FALSE <=>
            \E q \in Peers(CallCell) \ {CallCell} : At(b, q) = call.num)

\* C4 amended: isSafe returns false if and only if the digit appears in one
\* of the cells of the row, of the column or of the box, the cell
\* (row, col) included; when that cell does not hold the digit, this is the
\* digit appearing in one of the other 8 cells of a group.
C4_AllCellsOfGroups ==
    call.name = "isSafe" =>
        /\ call.ret = FALSE <=> \E q \in Peers(CallCell) : At(b, q) = call.num
        /\ At(b, CallCell) # call.num =>
               (call.ret = FALSE <=>
                   \E q \in Peers(CallCell) \ {CallCell} : At(b, q) = call.num)

C4_Witness ==
    /\ call.name = "isSafe"
    /\ At(b, CallCell) = call.num
    /\ \A q \in Peers(CallCell) \ {CallCell} : At(b, q) # call.num
    /\ call.ret = FALSE

\* C5: checkWin returns true if and only if every cell is filled and no
\* digit occurs twice in a row, column or box.
C5_CheckWinIffFullNoDup ==
    call.name = "checkWin" => (call.ret <=> (Full(b) /\ NoDup(b)))

C5_Witness ==
    /\ call.name = "checkWin"
    /\ Full(b)
    /\ ~NoDup(b)
    /\ call.ret = FALSE

\* C6: checkWin returns true on the solved grid of every generateSudoku
\* result.
C6_CheckWinOnSolved ==
    (pc = "done" /\ call.name = "checkWin") => call.ret = TRUE

C6_Witness ==
    /\ pc = "done"
    /\ call.name = "checkWin"
    /\ call.ret = TRUE
    /\ diff = "hard"

\* C7: for a grid that is one emptied cell away from a fully legal grid,
\* isSafe for the former digit at the emptied cell returns true.
C7_SelfExclusion ==
    ( /\ call.name = "isSafe"
      /\ At(b, CallCell) = Null
      /\ Legal(SetCell(b, call.row, call.col, call.num)) )
    => call.ret = TRUE

C7_Witness ==
    /\ call.name = "isSafe"
    /\ CallCell = <<8, 8>>
    /\ At(b, CallCell) = Null
    /\ Legal(SetCell(b, call.row, call.col, call.num))
    /\ call.ret = TRUE

\* C11: isSafe has no side effect: after a call, with either result, every
\* cell of the grid passed to it is as it was.
C11_IsSafeLeavesGrid ==
    call.name = "isSafe" => b = input

C11_Witness ==
    /\ call.name = "isSafe"
    /\ call.ret = TRUE
    /\ At(b, CallCell) = Null
    /\ b = input

\* C14 as claimed: a call of isSafe with row or col outside 0..8 or num
\* outside 1..9 ends in an error and returns no boolean.
C14_OutOfRangeThrows ==
    call.name = "isSafeRaw" => call.threw

\* what the code does: it throws only for a row outside 0..8, and returns a
\* boolean for every other argument
C14_OnlyRowThrows ==
    call.name = "isSafeRaw" => (call.threw <=> call.row \notin Idx)

\* on arguments in range isSafeJs is isSafe
C14_JsAgrees ==
    call.name = "isSafe" =>
        isSafeJs(b, call.row, call.col, call.num) =
            (IF call.ret THEN "true" ELSE "false")

----------------------------------------------------------------------------
(* Properties of solveSudoku (C8: SpecEngine; C9: SpecSolve; C10: Spec)   *)

\* the assignments of digits to the empty cells of g
Fill(g, f) ==
    [r \in Idx |-> [c \in Idx |->
        IF g[r][c] = Null THEN f[<<r, c>>] ELSE g[r][c]]]

\* g has a completion in which every row, column and box is a permutation
\* of 1..9: the groups without an empty cell are permutations already, and
\* some assignment makes the others permutations
HasCompletion(g) ==
    LET E == EmptyCells(g)
    IN  /\ \A G \in Groups : (G \cap E = {}) => IsPerm(g, G)
        /\ \E f \in [E -> Digits] :
               \A G \in Groups : (G \cap E # {}) => IsPerm(Fill(g, f), G)

\* C8: whenever a call of solveSudoku returns false, the top-level call or
\* a recursive one, the grid is cell for cell the grid on entry of that
\* call; row and col of a call that reaches the loop are indexes of the
\* grid.
C8_FalseRestoresGrid ==
    /\ (pc = "return" /\ ret = FALSE) => b = Top.entry
    /\ (pc = "solved" /\ ret = FALSE) => b = input
    /\ pc = "loop" => (Top.row \in Idx /\ Top.col \in Idx)

\* the top-level call has placed a digit, the recursive call has failed,
\* the placement has been undone and the top-level call returns false
C8_Witness ==
    /\ pc = "solved"
    /\ ret = FALSE
    /\ b = input
    /\ \E d \in Digits : isSafe(b, FirstEmpty(b)[1], FirstEmpty(b)[2], d)

\* C9 as claimed: for every grid, conflicting given cells included,
\* solveSudoku returns true if and only if the grid has a legal completion,
\* and on true the grid holds one.
C9_AnyGrid ==
    pc = "solved" =>
        /\ ret <=> HasCompletion(input)
        /\ ret => (Legal(b) /\ Extends(b, input))

\* C9 amended: for every grid whose filled cells hold no digit twice in a
\* row, column or box, solveSudoku returns true if and only if the grid has
\* a legal completion, and on true the grid holds one.
C9_ConflictFreeGrid ==
    (pc = "solved" /\ NoDup(input)) =>
        /\ ret <=> HasCompletion(input)
        /\ ret => (Legal(b) /\ Extends(b, input))

\* a conflict-free grid without completion, and solveSudoku has said so
C9_Witness ==
    /\ pc = "solved"
    /\ NoDup(input)
    /\ EmptyCells(input) # {}
    /\ ~HasCompletion(input)
    /\ ret = FALSE

\* the three diagonal boxes hold permutations and every other cell is empty
DiagonalSeed(g) ==
    /\ \A k \in 0 .. (BoxN - 1) : IsPerm(g, BoxCells(k, k))
    /\ FilledCount(g) = BoxN * N

\* C10: on the grid seeded by the three fillDiagonalBox calls solveSudoku
\* returns true and leaves no empty cell.
C10_SeededSolveSucceeds ==
    (pc = "solved" /\ DiagonalSeed(input)) => (ret = TRUE /\ Full(b))

C10_Witness ==
    /\ pc = "solved"
    /\ DiagonalSeed(input)
    /\ ret = TRUE
    /\ Full(b)

\* C15: whenever a call of solveSudoku, the top-level call or a recursive
\* one, returns true on a grid whose filled cells hold no digit twice in a
\* row, column or box, the grid has no empty cell, every cell filled on
\* entry holds its entry value, and no row, column or box holds a digit
\* twice.
C15_TrueMeansSolved ==
    /\ (pc = "solved" /\ ret = TRUE /\ NoDup(input)) =>
           (Full(b) /\ Extends(b, input) /\ NoDup(b))
    /\ (pc = "return" /\ ret = TRUE /\ NoDup(Top.entry)) =>
           (Full(b) /\ Extends(b, Top.entry) /\ NoDup(b))

\* solveSudoku has returned true on a conflict-free grid with empty cells
C15_Witness ==
    /\ pc = "solved"
    /\ ret = TRUE
    /\ NoDup(input)
    /\ EmptyCells(input) # {}
    /\ Full(b)
    /\ Extends(b, input)

----------------------------------------------------------------------------
(* Properties of fillDiagonalBox (specification Spec)                      *)

\* the box on the diagonal that fillDiagonalBox(b, startRow, startRow) fills
FillBox == BoxCells(startRow \div BoxN, startRow \div BoxN)

\* the cells of the diagonal boxes before the one being filled
BoxesBefore == UNION {BoxCells(k, k) : k \in 0 .. ((startRow \div BoxN) - 1)}

\* the cells of FillBox before (fi, fj) in the order of the two loops
FilledOfBox == {p \in FillBox : (p[1] - startRow) * BoxN + (p[2] - startRow)
                                   < fi * BoxN + fj}

\* during the fill: the boxes before the current one are permutations, the
\* current box is filled up to (fi, fj) with distinct digits, and every
\* other cell is empty
FillProgress ==
    pc = "fill" =>
        /\ \A k \in 0 .. ((startRow \div BoxN) - 1) : IsPerm(b, BoxCells(k, k))
        /\ (Idx \X Idx) \ EmptyCells(b) = BoxesBefore \cup FilledOfBox
        /\ NoDup(b)

\* after the three calls, at the call solveSudoku(newBoard) of line 543
AfterFill ==
    (pc = "call" /\ stack = <<>> /\ diff \in Difficulty) =>
        /\ \A k \in 0 .. (BoxN - 1) : IsPerm(b, BoxCells(k, k))
        /\ \A p \in Idx \X Idx :
               (p \notin UNION {BoxCells(k, k) : k \in 0 .. (BoxN - 1)}) =>
                   At(b, p) = Null
        /\ NoDup(b)

\* a step of fillDiagonalBox changes no cell outside its box, and writes a
\* digit to an empty cell only
FillWritesOwnBox ==
    pc = "fill" =>
        \A p \in Idx \X Idx :
            At(b', p) # At(b, p) =>
                (p \in FillBox /\ At(b, p) = Null /\ At(b', p) \in Digits)

\* C16: after the three fillDiagonalBox calls each of the boxes at (0,0),
\* (3,3) and (6,6) holds a permutation of 1..9, every cell outside them is
\* empty and no row, column or box holds a digit twice; each call writes
\* only cells of its own box.
C16_DiagonalBoxesFilled ==
    /\ [](FillProgress /\ AfterFill)
    /\ [][FillWritesOwnBox]_vars

\* the third call has returned and solveSudoku is entered on the seeded grid
C16_Witness ==
    /\ pc = "call"
    /\ stack = <<>>
    /\ diff \in Difficulty
    /\ b = input
    /\ startRow = N - BoxN
    /\ \A k \in 0 .. (BoxN - 1) : IsPerm(b, BoxCells(k, k))

----------------------------------------------------------------------------
(* Properties of the carving loop (specification Spec)                     *)

\* the cell the next iteration of the while loop draws
NextDrawn == <<Draw9(NextRng(rng)), Draw9(NextRng(NextRng(rng)))>>

\* one iteration, which has drawn (ci', cj'): an empty cell changes nothing,
\* a non-empty cell is emptied, it alone, and the budget falls by one
CarveEffect ==
    (pc = "carve" /\ pc' = "carve") =>
        IF puzzleBoard[ci'][cj'] = Null
        THEN puzzleBoard' = puzzleBoard /\ count' = count
        ELSE /\ \A p \in Idx \X Idx :
                    At(puzzleBoard', p) =
                        (IF p = <<ci', cj'>> THEN Null ELSE At(puzzleBoard, p))
             /\ count' = count - 1

\* the clues left and the budget spent add up to 81
CarveCount ==
    pc \in {"carve", "done"} =>
        /\ FilledCount(puzzleBoard) = N * N - (Attempts(diff) - count)
        /\ count >= 0

\* C17: in the carving loop a draw of an empty cell changes neither the
\* puzzle grid nor the budget, a draw of a non-empty cell empties that cell
\* only and lowers the budget by one; the number of non-empty puzzle cells
\* is 81 minus the budget spent, and the budget is never negative.
C17_CarveLoop ==
    /\ []CarveCount
    /\ [][CarveEffect]_vars

\* cells have been cleared, budget remains, and the next draw is a cell
\* that is empty already
C17_Witness ==
    /\ pc = "carve"
    /\ count > 0
    /\ count < Attempts(diff)
    /\ At(puzzleBoard, NextDrawn) = Null

----------------------------------------------------------------------------
(* The nesting of solveSudoku (specification SpecEngine)                   *)

\* the active calls: the frames of the stack, and at line 612 the call that
\* is being entered
Depth == Len(stack) + (IF pc = "call" THEN 1 ELSE 0)

\* the frames whose call has placed its digit and waits in line 612 for the
\* recursive call: every frame but the innermost, and the innermost too
\* when it is making the call
Placing ==
    IF pc = "call" THEN 1 .. Len(stack) ELSE 1 .. (Len(stack) - 1)

FrameCell(k) == <<stack[k].row, stack[k].col>>

\* a waiting frame owns one cell: a cell empty on entry of the top-level
\* call, which holds the frame's digit, and which no other frame owns
OwnsOneCell ==
    \A k \in Placing :
        /\ FrameCell(k) \in Idx \X Idx
        /\ At(input, FrameCell(k)) = Null
        /\ stack[k].num \in Digits
        /\ At(b, FrameCell(k)) = stack[k].num
        /\ \A m \in Placing : m # k => FrameCell(m) # FrameCell(k)

\* while the search goes on, the filled cells are those of the entry grid
\* and the owned cells, one for each waiting frame
OnlyOwnedCellsPlaced ==
    (pc \in {"loop", "call"} \/ (pc = "return" /\ ret = FALSE)) =>
        FilledCount(b) = FilledCount(input) + Cardinality(Placing)

\* C20: at every point of a solveSudoku run the number of nested active
\* calls is at most the number of cells empty on entry of the top-level
\* call plus one, hence at most 82, and each nesting level below the
\* innermost owns exactly one placed cell.
C20_DepthBound ==
    (pc \in {"call", "loop", "return"}) =>
        /\ Depth <= Cardinality(EmptyCells(input)) + 1
        /\ Depth <= N * N + 1
        /\ OwnsOneCell
        /\ OnlyOwnedCellsPlaced

\* the deepest point of a run on the seeded grid: 54 waiting calls, each
\* with its cell, and the call that finds no empty cell
C20_Witness ==
    /\ pc = "return"
    /\ ret = TRUE
    /\ Cardinality(EmptyCells(input)) = N * N - BoxN * N
    /\ Len(stack) = Cardinality(EmptyCells(input)) + 1
    /\ Top.row = -1
    /\ OwnsOneCell

----------------------------------------------------------------------------
(* Termination of solveSudoku (specification SpecSolveFair)                *)

\* C19: solveSudoku terminates on every 9x9 grid, whatever its filled cells
\* are: the top-level call returns true or false, and every call that is
\* entered is followed by a return.
C19_SolveTerminates ==
    /\ (pc = "call" /\ stack = <<>>) ~> (pc = "solved" /\ stack = <<>>)
    /\ (pc = "call") ~> (pc = "return")

\* the call has returned on a grid with empty cells whose filled cells
\* conflict
C19_Witness ==
    /\ pc = "solved"
    /\ stack = <<>>
    /\ EmptyCells(input) # {}
    /\ ~NoDup(input)

----------------------------------------------------------------------------
(* Termination of generateSudoku (specification SpecDrawsFair)             *)

\* in a loop that has accepted a draw, a draw that is rejected and leaves
\* the loop where it is can always follow
MissPossible ==
    /\ (pc = "fill" /\ (fi > 0 \/ fj > 0)) => ENABLED FillMiss
    /\ (pc = "carve" /\ count > 0 /\ count < Attempts(diff)) => ENABLED CarveMiss

\* C18: under fair draws the do-while of fillDiagonalBox and the carving
\* loop exit and generateSudoku returns; a rejected draw can follow every
\* draw, so without fairness neither loop has a bound on its iterations.
C18_GenerateTerminates ==
    /\ <>(pc = "done")
    /\ []MissPossible

\* generateSudoku has returned a hard puzzle
C18_Witness ==
    /\ pc = "done"
    /\ diff = "hard"
    /\ count = 0
    /\ FilledCount(puzzleBoard) = N * N - Attempts(diff)

\* without fair draws: generateSudoku returns all the same
C18_UnfairTerminates == <>(pc = "done")

----------------------------------------------------------------------------
(* Properties of the session (specification SpecSession)                   *)

\* from the copy of line 545 on, and between the handlers of the session,
\* no step changes a cell of the solved grid
SolvedGridKept ==
    (pc \in {"solved", "carve", "done"} \/ (pc = "idle" /\ pc' = "idle")) =>
        b' = b

\* while the puzzle is carved and played the solved grid is full, and the
\* puzzle grid holds its digits where it is not empty
SolvedGridFull ==
    (pc \in {"carve", "done"} \/ (pc = "idle" /\ initialBoard # NoBoard)) =>
        (Full(b) /\ Extends(b, puzzleBoard))

\* C12: the solved grid and the puzzle grid of generateSudoku do not alias:
\* the clearing of cells while carving, and every later change to the
\* board the puzzle becomes, leaves every cell of the solved grid as it is.
C12_SolvedGridNotAliased ==
    /\ []SolvedGridFull
    /\ [][SolvedGridKept]_vars

\* the puzzle has been carved and the player has written a digit to the
\* board
C12_Witness ==
    /\ pc = "idle"
    /\ isPlayingSudoku
    /\ call.name = "handleNumberInput"
    /\ call.ret = TRUE
    /\ EmptyCells(puzzleBoard) # {}
    /\ board # puzzleBoard
    /\ Full(b)

\* every clue of the initial board is on the board
CluesKept ==
    (pc = "idle" /\ initialBoard # NoBoard) => Extends(board, initialBoard)

\* a handler changes cells that are empty in the initial board only, and
\* leaves the initial board as it is
OnlyEmptyCellsChange ==
    (pc = "idle" /\ pc' = "idle" /\ initialBoard # NoBoard) =>
        /\ initialBoard' = initialBoard
        /\ \A p \in Idx \X Idx :
               At(board', p) # At(board, p) => At(initialBoard, p) = Null

\* C13: during a session, after any sequence of cell selections, digit
\* inputs and deletes, every cell that is a clue in the initial board holds
\* its initial digit on the board; only initially empty cells change.
C13_CluesImmutable ==
    /\ []CluesKept
    /\ [][OnlyEmptyCellsChange]_vars

\* a clue cell is selected, a digit has been entered on it and the handler
\* has returned without writing, after the board has been written elsewhere
C13_Witness ==
    /\ pc = "idle"
    /\ isPlayingSudoku
    /\ selectedCell # NoCell
    /\ IsClue(initialBoard, selectedCell[1], selectedCell[2])
    /\ call.name = "handleNumberInput"
    /\ call.ret = FALSE
    /\ call.num # At(initialBoard, selectedCell)
    /\ board # initialBoard
    /\ Extends(board, initialBoard)

----------------------------------------------------------------------------
(* checkWin and its argument (specification SpecFn)                        *)

\* C24: checkWin leaves the grid passed to it as it was, with either
\* result: the hypothetical emptying of a cell is done on a copy of the
\* cell's row.
C24_CheckWinLeavesGrid ==
    call.name = "checkWin" => b = input

\* checkWin has emptied each of the 81 cells in turn on its copy, has
\* returned true, and the grid is the full grid it was given
C24_Witness ==
    /\ call.name = "checkWin"
    /\ call.ret = TRUE
    /\ Full(input)
    /\ b = input

----------------------------------------------------------------------------
(* The grids of a solveSudoku run (specification SpecEngine)               *)

\* a step of the run writes at most one cell, a cell that was empty on entry
\* of the top-level call
WritesEmptyCellsOnly ==
    (pc \in {"call", "loop", "return"} /\ b' # b) =>
        \E p \in EmptyCells(input) :
            \A q \in Idx \X Idx : q # p => At(b', q) = At(b, q)

\* in a run on a grid without duplicates the grid has none, and holds the
\* entry value of every cell filled on entry
RunGridsLegal ==
    pc \in {"call", "loop", "return", "solved"} =>
        (~NoDup(input) \/ (NoDup(b) /\ Extends(b, input)))

\* C23: during a solveSudoku run on an input without duplicates every
\* intermediate grid is free of duplicates in every row, column and box,
\* and every cell filled on entry of the top-level call keeps its value at
\* every step: solveSudoku writes only cells that were empty on entry.
C23_RunKeepsGridLegal ==
    /\ []RunGridsLegal
    /\ [][WritesEmptyCellsOnly]_vars

\* deep in a run on the seeded grid, after a recursive call has failed and
\* its cell has been cleared
C23_Witness ==
    /\ pc = "loop"
    /\ Len(stack) > N
    /\ Top.num > 1
    /\ At(b, FrameCell(Len(stack))) = Null
    /\ DiagonalSeed(input)
    /\ Extends(b, input)

----------------------------------------------------------------------------
(* The completion solveSudoku finds (specification SpecLeast)              *)

\* the digits that the row, the column and the box of p leave for p
FreeAt(g, p) ==
    Digits \ {At(g, q) : q \in RowCells(p[1]) \cup ColCells(p[2]) \cup BoxOf(p)}

\* the legal completions of g, as assignments to its empty cells
Completions(g) ==
    LET E == EmptyCells(g)
        D == UNION {FreeAt(g, p) : p \in E}
    IN  {f \in [E -> D] : Legal(Fill(g, f))}

\* the assignment that grid h makes to the empty cells of g
Assigned(h, g) == [p \in EmptyCells(g) |-> At(h, p)]

\* f comes before h in the lexicographic order of the cells read row by row
LexLess(f, h) ==
    \E p \in DOMAIN f :
        /\ f[p] < h[p]
        /\ \A q \in DOMAIN f :
               (q[1] * N + q[2] < p[1] * N + p[2]) => f[q] = h[q]

\* the run of solveSudoku draws no random number and reads no argument of
\* generateSudoku: its steps change the grid, the stack and ret only
SolveReadsGridOnly ==
    (pc \in {"call", "loop", "return"}) =>
        UNCHANGED <<rng, diff, input, startRow, fi, fj, fnum, puzzleBoard,
                    count, ci, cj, shared, call, sess, app>>

\* on a grid with several completions solveSudoku returns true and leaves
\* the completion that comes first
LeastCompletion ==
    (pc = "solved" /\ diff = "none") =>
        /\ ret = TRUE
        /\ Legal(b)
        /\ Extends(b, input)
        /\ \A f \in Completions(input) :
               f = Assigned(b, input) \/ LexLess(Assigned(b, input), f)

\* C22: solveSudoku is deterministic and, on a conflict-free input that
\* has a completion, leaves the completion that is smallest in the
\* lexicographic order of the empty cells read row by row; the solved grid
\* of generateSudoku is a function of the three seeded boxes alone.
C22_LeastCompletion ==
    /\ []LeastCompletion
    /\ [][SolveReadsGridOnly]_vars

\* the grid has two completions, and solveSudoku has left the one that is
\* not the grid the cells were taken from
C22_Witness ==
    /\ pc = "solved"
    /\ diff = "none"
    /\ ret = TRUE
    /\ Cardinality(Completions(input)) > 1
    /\ b # BaseGrid
    /\ Legal(b)

----------------------------------------------------------------------------
(* Puzzles with more than one completion (specification Spec)              *)

\* the rectangles of grid g that can be exchanged: two rows and two columns
\* that meet in two boxes only and hold the same two digits crosswise
Rectangles(g) ==
    {R \in Idx \X Idx \X Idx \X Idx :
        /\ R[1] < R[2]
        /\ R[3] < R[4]
        /\ (R[1] \div BoxN = R[2] \div BoxN) \/ (R[3] \div BoxN = R[4] \div BoxN)
        /\ g[R[1]][R[3]] = g[R[2]][R[4]]
        /\ g[R[1]][R[4]] = g[R[2]][R[3]]}

RectCells(R) == {<<R[1], R[3]>>, <<R[1], R[4]>>, <<R[2], R[3]>>, <<R[2], R[4]>>}

\* g with the two digits of rectangle R exchanged
Exchanged(g, R) ==
    [r \in Idx |-> [c \in Idx |->
        IF <<r, c>> \in RectCells(R)
        THEN g[IF r = R[1] THEN R[2] ELSE R[1]][c]
        ELSE g[r][c]]]

\* the rectangles of the solved grid that the carving has emptied
OpenRectangles ==
    {R \in Rectangles(b) : RectCells(R) \subseteq EmptyCells(puzzleBoard)}

\* C21: generateSudoku does not guarantee a unique solution: when the
\* carving has emptied a rectangle of the solved grid whose digits can be
\* exchanged, the exchanged grid is a legal completion of the puzzle other
\* than the solved grid, and checkWin accepts it, as it tests the grid
\* alone; such results of generateSudoku are reached.
C21_SecondCompletionAccepted ==
    pc = "done" =>
        \A R \in OpenRectangles :
            /\ Exchanged(b, R) # b
            /\ Legal(Exchanged(b, R))
            /\ Extends(Exchanged(b, R), puzzleBoard)
            /\ checkWin(Exchanged(b, R)) = TRUE

\* generateSudoku has returned a puzzle with a second completion
C21_Witness ==
    /\ pc = "done"
    /\ OpenRectangles # {}
    /\ \E R \in OpenRectangles :
           /\ Exchanged(b, R) # b
           /\ Extends(Exchanged(b, R), puzzleBoard)
           /\ checkWin(Exchanged(b, R))

----------------------------------------------------------------------------
(* The session played to its end (SpecPlay)                                *)

\* C25: in every reachable state of a puzzle session, whatever the sequence
\* of start puzzle, select cell, digit input, delete, quit and play again,
\* isWon implies that the working board is completely filled and has no
\* duplicate in any row, column or box.
C25_WonBoardComplete ==
    isWon => (board # NoBoard /\ Full(board) /\ NoDup(board))

\* a puzzle has been won, and a handler has been called on the won board
C25_Witness ==
    /\ isWon
    /\ isPlayingSudoku
    /\ Full(board)
    /\ board # initialBoard
    /\ call.name = "handleDelete"

\* between two handlers of a won puzzle: no step but the start of a new
\* puzzle changes the board, the points or isWon
WonFreezes ==
    (isWon /\ pc = "idle" /\ pc' = "idle") =>
        (board' = board /\ points' = points /\ isWon')

\* the points are raised by the step that sets isWon, and by no other
BonusOnWinOnly ==
    points' > points => (~isWon /\ isWon' /\ pc = "idle" /\ pc' = "idle")

\* C26: the win bonus is awarded at most once per started puzzle: once isWon
\* is set, no digit input and no delete changes the board or the stats
\* until a new puzzle is started.
C26_BonusOnce == [][WonFreezes /\ BonusOnWinOnly]_vars

\* handleDelete was called on an empty cell of the puzzle after the win and
\* returned at line 667
C26_Witness ==
    /\ isWon
    /\ isPlayingSudoku
    /\ call.name = "handleDelete"
    /\ ~call.ret
    /\ call.row \in Idx
    /\ initialBoard[call.row][call.col] = Null
    /\ points = startPoints - 2 * COST_TO_PLAY_SUDOKU + Bonus(difficulty)

\* a step taken on the start screen with fewer than 50 points
RejectedStart ==
    (pc = "idle" /\ ~isPlayingSudoku /\ points < COST_TO_PLAY_SUDOKU) =>
        /\ UNCHANGED <<pc, diff, rng, b, startRow, fi, fj, stack, ret, input,
                       puzzleBoard, count, call, fnum, ci, cj, shared>>
        /\ UNCHANGED <<isPlayingSudoku, initialBoard, board, selectedCell,
                       isWon, points, games, startPoints>>
        /\ (message' # message =>
               (message' = "Insufficient Points. Need 50." /\
                difficulty' = difficulty))

\* C27: starting a puzzle with fewer than 50 points is rejected without
\* effect: the points are unchanged, no puzzle is generated, the board and
\* the initial board are unchanged and isPlayingSudoku stays false; only the
\* message is set.
C27_StartRejected == [][RejectedStart]_vars

\* a start was rejected after a puzzle had been played
C27_Witness ==
    /\ message = "Insufficient Points. Need 50."
    /\ ~isPlayingSudoku
    /\ points < COST_TO_PLAY_SUDOKU
    /\ games > 0
    /\ board # NoBoard

\* C28: starting from a non-negative balance, the points are never negative
\* after any sequence of start puzzle, digit input, delete, win and quit.
C28_PointsNonNegative == points >= 0

\* C29: a puzzle is charged once: for a puzzle that is started and then
\* won, the balance after the win is the balance before the start minus 50
\* plus the bonus of the difficulty.
C29_ChargedOnce ==
    (isWon /\ isPlayingSudoku) =>
        points = startPoints - COST_TO_PLAY_SUDOKU + Bonus(difficulty)

\* what the two handlers do together: the cost is deducted at the start
\* (line 638) and again with the bonus (line 660)
C29_ChargedTwice ==
    (isWon /\ isPlayingSudoku) =>
        points = startPoints - 2 * COST_TO_PLAY_SUDOKU + Bonus(difficulty)

\* the balance while a puzzle is played, and the least one a win leaves
C28_LeastBalance ==
    /\ (isPlayingSudoku /\ ~isWon) => points >= 0
    /\ points >= EasyBonus - COST_TO_PLAY_SUDOKU

----------------------------------------------------------------------------
(* The stats under the timer and the analyses (SpecStats)                  *)

\* the step in which an analysis completes and papersRead is incremented
AnalysisCompletes == loading /\ ~loading' /\ papersRead' # papersRead

\* C30: no update of the stats is lost: the points and minutes that the
\* study timer credits while an analysis request is in flight are still in
\* the stats after the analysis has completed and incremented papersRead,
\* in every interleaving of timer ticks and the response.
C30_NoLostUpdate ==
    [][AnalysisCompletes =>
           /\ points' = points
           /\ minutesStudied' = minutesStudied
           /\ papersRead' = papersRead + 1]_vars

\* what the response does: the stats go back to those of the render in
\* which the request was made, with one more paper
C30_ResponseRestoresSnapshot ==
    [][AnalysisCompletes =>
           /\ points' = userStats.points
           /\ minutesStudied' = userStats.minutesStudied
           /\ papersRead' = userStats.papersRead + 1]_vars

\* the timer alone keeps the points in step with the minutes
C30_PointsFollowMinutes ==
    \E p \in InitPoints : points = p + PointsPerMinute * minutesStudied

====
